---- MODULE Spec2Model ----
(***************************************************************************)
(* A model of the DNG output plugin src/raw.imageio/rawoutput.cpp: one     *)
(* RawOutput session object, the libtiff calls it makes (TIFFOpen,         *)
(* TIFFSetField, TIFFWriteScanline, TIFFClose) and the files those calls   *)
(* produce.                                                                *)
(*                                                                         *)
(* Handles: 0 is the null pointer, a positive number h is the handle that  *)
(* the h-th successful TIFFOpen returned, and Garbage is a non-null value  *)
(* that no TIFFOpen returned (an indeterminate pointer).                   *)
(* Floats are modelled by integers: the code only copies them.             *)
(* Strings that the code indexes are sequences of one-character strings.   *)
(***************************************************************************)
EXTENDS Integers, Sequences, FiniteSets, TLC

VARIABLES
    status,           \* "live" | "destroyed" | "crashed": the object's life
    m_tif,            \* RawOutput::m_tif
    m_spec,           \* ImageOutput::m_spec, the working spec
    m_scratch,        \* RawOutput::m_scratch, a sequence of bytes
    m_colormatrix1,   \* RawOutput::m_colormatrix1
    m_colormatrix2,   \* RawOutput::m_colormatrix2
    m_asShotNeutral,  \* RawOutput::m_asShotNeutral
    errmsg,           \* the error recorded by errorf, <<>> when none
    files,            \* files[h]: what libtiff received for handle h
    closeLog,         \* the handles passed to TIFFClose, in order
    faults,           \* libtiff calls made on a handle that is no open file
    tiffOpens,        \* the number of TIFFOpen calls made so far
    tiffWrites,       \* the number of TIFFWriteScanline calls made so far
    call,             \* the last call on the session and its result
    cfa_in            \* the filter string that SpecCFA opens with

vars == <<status, m_tif, m_spec, m_scratch, m_colormatrix1, m_colormatrix2,
          m_asShotNeutral, errmsg, files, closeLog, faults, tiffOpens, tiffWrites,
          call, cfa_in>>

(***************************************************************************)
(* Bounds of the model.                                                    *)
(***************************************************************************)
MaxOpens == 2        \* open() calls in one run
MaxWrites == 2       \* write_scanline calls in one run
MaxFilterLen == 5    \* longest filter string given to the encoder

Garbage == -1

Identity3x3 == <<1, 0, 0, 0, 1, 0, 0, 0, 1>>
NeutralDefault == <<1, 1, 1>>
BayerPatternDimensions == <<2, 2>>

\* Calibration values a caller may supply (none equals a default).
MatA == <<2, 0, 0, 0, 3, 0, 0, 0, 4>>
MatB == <<5, 1, 0, 1, 6, 0, 0, 0, 7>>
NeutralA == <<2, 1, 3>>

(***************************************************************************)
(* ImageSpec, TypeDesc and attributes (OpenImageIO/imageio.h).             *)
(***************************************************************************)
TypeSize(fmt) ==
    CASE fmt = "UINT8" -> 1
      [] fmt = "UINT16" -> 2
      [] OTHER -> 0

NoAttr == [type |-> "none", value |-> <<>>]
AttrNames == {"raw:FilterPattern", "raw:ColorMatrix1", "raw:ColorMatrix2",
              "raw:asShotNeutral"}

\* A default-constructed ImageSpec: what m_spec is before any open().
DefaultImageSpec ==
    [width |-> 0, height |-> 0, nchannels |-> 0, format |-> "UNKNOWN",
     full_x |-> 0, full_y |-> 0, full_width |-> 0, full_height |-> 0,
     attrs |-> [n \in AttrNames |-> NoAttr]]

\* ImageSpec::find_attribute(name, searchtype): the attribute of that name
\* when its type is searchtype, else none.
find_attribute(spec, name, searchtype) ==
    IF spec.attrs[name].type = searchtype THEN spec.attrs[name] ELSE NoAttr

\* ImageSpec::get_string_attribute(name, defaultval).
get_string_attribute(spec, name, defaultval) ==
    IF spec.attrs[name].type = "string" THEN spec.attrs[name].value
    ELSE defaultval

\* What open() does to its working copy after the file is open.
NormalizeSpec(spec) ==
    [spec EXCEPT !.nchannels = 1, !.format = "UINT16"]

(***************************************************************************)
(* filter_str_to_cfapattern and its lambda channel_to_cfa_index.           *)
(***************************************************************************)
\* A slip in the table: the codes of G and B exchanged.
channel_to_cfa_index_swapped(c) ==
    CASE c = "R" -> 0
      [] c = "G" -> 2
      [] c = "B" -> 1
      [] c = "C" -> 3
      [] c = "M" -> 4
      [] c = "Y" -> 5
      [] c = "W" -> 6
      [] OTHER -> 0

channel_to_cfa_index(c) ==
    CASE c = "R" -> 0
      [] c = "G" -> 1
      [] c = "B" -> 2
      [] c = "C" -> 3
      [] c = "M" -> 4
      [] c = "Y" -> 5
      [] c = "W" -> 6
      [] OTHER -> 0

filter_str_to_cfapattern(filter) ==
    IF Len(filter) # 4 THEN <<0, 0, 0, 0>>
    ELSE [i \in 1..4 |-> channel_to_cfa_index(filter[i])]

(***************************************************************************)
(* The TIFFSetField calls of open(), in the order of the code. Each is a   *)
(* triple <<"tag", name, value>>.                                          *)
(***************************************************************************)
Tag(name, value) == <<"tag", name, value>>

\* Lines 139-153: the fixed tags and the image size.
HeaderTags(spec) ==
    << Tag("DNGVERSION", <<1, 1, 0, 0>>),
       Tag("SUBFILETYPE", 0),
       Tag("COMPRESSION", "COMPRESSION_NONE"),
       Tag("MAKE", ""),
       Tag("MODEL", ""),
       Tag("IMAGEWIDTH", spec.width),
       Tag("IMAGELENGTH", spec.height),
       Tag("BITSPERSAMPLE", 16),
       Tag("ROWSPERSTRIP", 1),
       Tag("ORIENTATION", "ORIENTATION_TOPLEFT"),
       Tag("PHOTOMETRIC", "PHOTOMETRIC_CFA"),
       Tag("SAMPLESPERPIXEL", 1),
       Tag("PLANARCONFIG", "PLANARCONFIG_CONTIG"),
       Tag("SAMPLEFORMAT", "SAMPLEFORMAT_UINT") >>

\* Lines 156-160: the filter pattern.
CfaTags(spec) ==
    << Tag("CFAREPEATPATTERNDIM", BayerPatternDimensions),
       Tag("CFAPATTERN",
           filter_str_to_cfapattern(
               get_string_attribute(spec, "raw:FilterPattern", <<>>))) >>

\* A slip: the second pair written to the tags of the first pair.
CameraTags_model ==
    << <<"tag", "MAKE", "DNG">>,
       <<"tag", "MODEL", "DNG">> >>

\* Lines 163-164.
CameraTags ==
    << Tag("MAKE", "DNG"),
       Tag("UNIQUECAMERAMODEL", "DNG") >>

\* Lines 166-171, 174-178, 182-187: a member array after the optional copy
\* from the attribute found (p), which is NoAttr when find_attribute
\* returned null.
Found(p) == p.type # "none"

CopyIfFound(p, member) == IF Found(p) THEN p.value ELSE member

\* Line 172.
ColorMatrix1Tags(cm1) == << Tag("COLORMATRIX1", cm1) >>

\* A slip: ColorMatrix2 written like ColorMatrix1, outside the if (p).
ColorMatrix2Tags_always(p, cm2) == << <<"tag", "COLORMATRIX2", cm2>> >>

\* Lines 176-180: written only inside the if (p).
ColorMatrix2Tags(p, cm2) ==
    IF Found(p) THEN << Tag("COLORMATRIX2", cm2) >> ELSE <<>>

\* Line 188.
AsShotNeutralTags(n) == << Tag("ASSHOTNEUTRAL", n) >>

\* Lines 190-191.
LayoutTags ==
    << Tag("CFALAYOUT", 1),
       Tag("CFAPLANECOLOR", <<0, 1, 2>>) >>

\* A slip: open() returns before the active area is written.
ActiveAreaTags_none(spec) == <<>>

\* Lines 195-199. The offsets and sizes of the model are small and not
\* negative, so the conversion from int to uint32_t keeps their value.
ActiveAreaTags(spec) ==
    << Tag("ACTIVEAREA",
           << spec.full_y,
              spec.full_x,
              spec.full_y + spec.full_height,
              spec.full_x + spec.full_width >>) >>

\* Every TIFFSetField of a successful open(), lines 139-199. spec is the
\* normalized working spec; cm1, cm2, n are the members after the copies.
OpenTags(spec, cm1, cm2, n) ==
    HeaderTags(spec) \o CfaTags(spec) \o CameraTags
      \o ColorMatrix1Tags(cm1)
      \o ColorMatrix2Tags(find_attribute(spec, "raw:ColorMatrix2", "matrix33"), cm2)
      \o AsShotNeutralTags(n)
      \o LayoutTags
      \o ActiveAreaTags(spec)

(***************************************************************************)
(* Reading a file's log: what libtiff holds for a tag is the last value    *)
(* set.                                                                    *)
(***************************************************************************)
IsTag(e, name) == e[1] = "tag" /\ e[2] = name
IsRow(e) == e[1] = "row"

TagIndexes(log, name) == {i \in 1..Len(log) : IsTag(log[i], name)}
TagPresent(log, name) == TagIndexes(log, name) # {}
LastIndex(S) == CHOOSE i \in S : \A j \in S : j <= i
TagValue(log, name) == log[LastIndex(TagIndexes(log, name))][3]
\* The values a tag was given, in order.
TagHistory(log, name) ==
    LET sel == SelectSeq(log, LAMBDA e : IsTag(e, name))
    IN [i \in 1..Len(sel) |-> sel[i][3]]
RowsOf(log) == SelectSeq(log, IsRow)

(***************************************************************************)
(* write_scanline's helpers.                                               *)
(***************************************************************************)
\* convert_types between the two integer sample formats.
ConvertSample(v, from, to) ==
    CASE from = to -> v
      [] from = "UINT8" /\ to = "UINT16" -> v * 257
      [] from = "UINT16" /\ to = "UINT8" -> (v * 255 + 32767) \div 65535
      [] OTHER -> 0

\* The bytes of one sample in memory (little-endian host).
SampleBytes(v, fmt) ==
    CASE fmt = "UINT8" -> <<v>>
      [] fmt = "UINT16" -> <<v % 256, v \div 256>>
      [] OTHER -> <<>>

RECURSIVE RowBytes(_, _, _)
RowBytes(samples, from, to) ==
    IF samples = <<>> THEN <<>>
    ELSE SampleBytes(ConvertSample(Head(samples), from, to), to)
           \o RowBytes(Tail(samples), from, to)

\* ImageOutput::to_native_scanline: the row in the working spec's format.
\* When the caller's data is already native it is returned as it is (loc
\* "caller"); otherwise the converted row is in the local vector (loc
\* "local"). Neither is ever m_scratch's own storage.
to_native_scanline(format, samples, spec) ==
    [loc |-> IF format = spec.format THEN "caller" ELSE "local",
     bytes |-> RowBytes(samples, format, spec.format)]

Take(s, n) == SubSeq(s, 1, IF n < Len(s) THEN n ELSE Len(s))

\* A slip: && for || in the test, so a filled buffer is never replaced.
move_to_scratch_keeps(scratch, data, nbytes) ==
    IF scratch = <<>> /\ data.loc # "m_scratch"
    THEN Take(data.bytes, nbytes)
    ELSE scratch

\* RawOutput::move_to_scratch: m_scratch after the call.
move_to_scratch(scratch, data, nbytes) ==
    IF scratch = <<>> \/ data.loc # "m_scratch"
    THEN Take(data.bytes, nbytes)
    ELSE scratch

\* Line 283-284: the byte count given to move_to_scratch.
ScanlineBytes(spec) == spec.width * TypeSize(spec.format)

(***************************************************************************)
(* The inputs of the model.                                                *)
(***************************************************************************)
Attr(type, value) == [type |-> type, value |-> value]

RGGB == <<"R", "G", "G", "B">>

\* ImageSpec(xres, yres, nchans, fmt) with the attributes set.
MakeSpec(shape, f, c1, c2, n) ==
    [width |-> shape[1], height |-> 2, nchannels |-> shape[2],
     format |-> shape[3],
     full_x |-> 0, full_y |-> 0, full_width |-> shape[1], full_height |-> 2,
     attrs |-> [a \in AttrNames |->
                  CASE a = "raw:FilterPattern" -> f
                    [] a = "raw:ColorMatrix1" -> c1
                    [] a = "raw:ColorMatrix2" -> c2
                    [] OTHER -> n]]

\* The specs callers open with: a bare one that is already in the native
\* shape, one with every raw: attribute, and one whose raw:ColorMatrix2 is
\* nine floats but not of matrix type. A shape is <<width, nchannels, format>>.
PlainSpec == MakeSpec(<<1, 1, "UINT16">>, NoAttr, NoAttr, NoAttr, NoAttr)
FullSpec ==
    MakeSpec(<<2, 3, "UINT8">>, Attr("string", RGGB), Attr("matrix33", MatA),
             Attr("matrix33", MatB), Attr("color", NeutralA))
MistypedSpec ==
    MakeSpec(<<2, 3, "UINT8">>, NoAttr, NoAttr, Attr("float[9]", MatB), NoAttr)

\* <<name, mode, userspec>> of an open() call.
OpenArgs ==
    {<<"out.dng", "Create", PlainSpec>>,
     <<"sub.dng", "AppendSubimage", FullSpec>>,
     <<"out.dng", "Create", MistypedSpec>>}

\* A caller's row of n samples: a ramp from a base value.
Ramp(n, base) == [i \in 1..n |-> base + (i - 1)]
\* <<y, data, ok>> of a write_scanline call on a spec of n samples a row,
\* ok being what TIFFWriteScanline will report: row 0 is given as 16-bit
\* samples, and libtiff writes it or fails on it; row 1 is given as 8-bit
\* samples.
WriteArgs(n) ==
    {<<0, [format |-> "UINT16", samples |-> Ramp(n, 8192)], TRUE>>,
     <<0, [format |-> "UINT16", samples |-> Ramp(n, 8192)], FALSE>>,
     <<1, [format |-> "UINT8", samples |-> Ramp(n, 32)], TRUE>>}

NoCall ==
    [op |-> "none", result |-> "none", name |-> "", mode |-> "",
     userspec |-> DefaultImageSpec, y |-> 0,
     data |-> [format |-> "UNKNOWN", samples |-> <<>>]]

(***************************************************************************)
(* The state after construction. RawOutput() {} leaves m_tif (line 33, no  *)
(* initializer) indeterminate: it may be null or not.                      *)
(***************************************************************************)
Init ==
    /\ status = "live"
    /\ m_tif \in {0, Garbage}
    /\ m_spec = DefaultImageSpec
    /\ m_scratch = <<>>
    /\ m_colormatrix1 = Identity3x3
    /\ m_colormatrix2 = Identity3x3
    /\ m_asShotNeutral = NeutralDefault
    /\ errmsg = <<>>
    /\ files = <<>>
    /\ closeLog = <<>>
    /\ faults = <<>>
    /\ tiffOpens = 0
    /\ tiffWrites = 0
    /\ call = NoCall
    /\ cfa_in = <<>>

IsOpenFile(h) == h \in 1..Len(files) /\ files[h].closes = 0

(***************************************************************************)
(* RawOutput::open(name, userspec, mode); ok is whether TIFFOpen returns a *)
(* handle.                                                                 *)
(***************************************************************************)
\* A slip: the working spec normalized before the file is opened.
SpecOnOpen_early(userspec, ok) == NormalizeSpec(userspec)

\* The working spec when open() returns: line 119, and lines 133-134 after
\* a successful TIFFOpen only.
SpecOnOpen(userspec, ok) ==
    IF ok THEN NormalizeSpec(userspec) ELSE userspec

\* Line 129.
OpenError(name) == <<"Could not open \"", name, "\"">>

\* Line 124/126: the mode string given to TIFFOpen.
TiffMode(mode) == IF mode = "AppendSubimage" THEN "a" ELSE "w"

Open(name, userspec, mode, ok) ==
    /\ status = "live"
    /\ tiffOpens < MaxOpens
    /\ tiffOpens' = tiffOpens + 1
    /\ LET spec == SpecOnOpen(userspec, ok)
           cm1 == CopyIfFound(
                      find_attribute(spec, "raw:ColorMatrix1", "matrix33"),
                      m_colormatrix1)
           cm2 == CopyIfFound(
                      find_attribute(spec, "raw:ColorMatrix2", "matrix33"),
                      m_colormatrix2)
           neu == CopyIfFound(
                      find_attribute(spec, "raw:asShotNeutral", "color"),
                      m_asShotNeutral)
       IN /\ m_spec' = spec
          /\ IF ok
             THEN /\ m_tif' = Len(files) + 1
                  /\ files' = Append(files,
                                [log |-> OpenTags(spec, cm1, cm2, neu),
                                 closes |-> 0])
                  /\ m_colormatrix1' = cm1
                  /\ m_colormatrix2' = cm2
                  /\ m_asShotNeutral' = neu
                  /\ errmsg' = errmsg
             ELSE /\ m_tif' = 0
                  /\ errmsg' = OpenError(name)
                  /\ UNCHANGED <<files, m_colormatrix1, m_colormatrix2,
                                 m_asShotNeutral>>
    /\ call' = [NoCall EXCEPT !.op = "open",
                              !.result = IF ok THEN "success" ELSE "failure",
                              !.name = name, !.mode = TiffMode(mode),
                              !.userspec = userspec]
    /\ UNCHANGED <<status, m_scratch, closeLog, faults, tiffWrites, cfa_in>>

OpenCall ==
    \E a \in OpenArgs, ok \in BOOLEAN :
        Open(a[1], a[3], a[2], ok)

(***************************************************************************)
(* RawOutput::close(), lines 205-213 and 271.                              *)
(***************************************************************************)
\* A libtiff call on a handle that is no open file. On the null pointer it
\* is a null dereference inside libtiff and the process dies; on an
\* indeterminate pointer it is undefined, and the process may die in the
\* call or return from it.
FaultOutcomes(tif, after) ==
    IF tif = 0 THEN {"crashed"} ELSE {"crashed", after}

\* Line 208: the early return.
CloseReturnsEarly(tif) == tif = 0

CloseBody(after) ==
    IF CloseReturnsEarly(m_tif)
    THEN /\ status' = after
         /\ UNCHANGED <<m_tif, files, closeLog, faults>>
    ELSE /\ closeLog' = Append(closeLog, m_tif)
         /\ IF IsOpenFile(m_tif)
            THEN /\ files' = [files EXCEPT ![m_tif].closes = @ + 1]
                 /\ m_tif' = 0
                 /\ status' = after
                 /\ faults' = faults
            ELSE /\ faults' = Append(faults, <<"TIFFClose", m_tif>>)
                 /\ files' = files
                 /\ status' \in FaultOutcomes(m_tif, after)
                 /\ m_tif' = IF status' = "crashed" THEN m_tif ELSE 0

Close ==
    /\ status = "live"
    /\ CloseBody("live")
    /\ call' = [NoCall EXCEPT !.op = "close",
                  !.result = IF status' = "crashed" THEN "fault" ELSE "success"]
    /\ UNCHANGED <<m_spec, m_scratch, m_colormatrix1, m_colormatrix2,
                   m_asShotNeutral, errmsg, tiffOpens, tiffWrites, cfa_in>>

\* ~RawOutput(), line 21: close(), and the object is gone.
Destroy ==
    /\ status = "live"
    /\ CloseBody("destroyed")
    /\ call' = [NoCall EXCEPT !.op = "destroy",
                  !.result = IF status' = "crashed" THEN "fault" ELSE "success"]
    /\ UNCHANGED <<m_spec, m_scratch, m_colormatrix1, m_colormatrix2,
                   m_asShotNeutral, errmsg, tiffOpens, tiffWrites, cfa_in>>

(***************************************************************************)
(* RawOutput::write_scanline(y, z, format, data, xstride), lines 274-288.  *)
(* The caller's row is contiguous (xstride is AutoStride) and has          *)
(* width * nchannels samples of the working spec. ok is whether            *)
(* TIFFWriteScanline reports success (1) or an error (-1).                 *)
(***************************************************************************)
\* Line 287: the value write_scanline returns, given TIFFWriteScanline's.
WriteResult(ok) == "success"

WriteScanline(y, data, ok) ==
    /\ status = "live"
    /\ tiffWrites < MaxWrites
    /\ tiffWrites' = tiffWrites + 1
    /\ LET native == to_native_scanline(data.format, data.samples, m_spec)
           scratch == move_to_scratch(m_scratch, native, ScanlineBytes(m_spec))
       IN /\ m_scratch' = scratch
          /\ IF IsOpenFile(m_tif)
             THEN /\ files' = [files EXCEPT ![m_tif].log =
                                  Append(@, <<"row", y, scratch, ok>>)]
                  /\ UNCHANGED <<faults, status>>
                  /\ call' = [NoCall EXCEPT !.op = "write_scanline",
                                !.result = WriteResult(ok),
                                !.y = y, !.data = data]
             ELSE /\ faults' = Append(faults, <<"TIFFWriteScanline", m_tif>>)
                  /\ files' = files
                  /\ status' \in FaultOutcomes(m_tif, "live")
                  /\ call' = [NoCall EXCEPT !.op = "write_scanline",
                                !.result = IF status' = "crashed" THEN "fault"
                                           ELSE WriteResult(ok),
                                !.y = y, !.data = data]
    /\ UNCHANGED <<m_tif, m_spec, m_colormatrix1, m_colormatrix2,
                   m_asShotNeutral, errmsg, closeLog, tiffOpens, cfa_in>>

WriteCall ==
    \E a \in WriteArgs(m_spec.width * m_spec.nchannels) :
        WriteScanline(a[1], a[2], a[3])

Next == OpenCall \/ Close \/ Destroy \/ WriteCall

Spec == Init /\ [][Next]_vars

(***************************************************************************)
(* The encoder alone: every filter string is given to one open().          *)
(***************************************************************************)
FilterAlphabet == {"R", "G", "B", "C", "M", "Y", "W", "X"}
ShortAlphabet == {"R", "W", "X"}

\* Every string of length 4 over the seven filter letters and one other
\* character, and every string of another length up to MaxFilterLen over
\* three characters.
FilterStrings ==
    [1..4 -> FilterAlphabet]
      \cup UNION {[1..n -> ShortAlphabet] : n \in (0..MaxFilterLen) \ {4}}

InitCFA ==
    /\ status = "live"
    /\ m_tif \in {0, Garbage}
    /\ m_spec = DefaultImageSpec
    /\ m_scratch = <<>>
    /\ m_colormatrix1 = Identity3x3
    /\ m_colormatrix2 = Identity3x3
    /\ m_asShotNeutral = NeutralDefault
    /\ errmsg = <<>>
    /\ files = <<>>
    /\ closeLog = <<>>
    /\ faults = <<>>
    /\ tiffOpens = 0
    /\ tiffWrites = 0
    /\ call = NoCall
    /\ cfa_in \in FilterStrings

\* open() of a spec whose raw:FilterPattern is cfa_in, or is absent.
OpenFilter ==
    /\ tiffOpens = 0
    /\ \E present \in BOOLEAN :
         Open("out.dng",
              MakeSpec(<<2, 1, "UINT16">>,
                       IF present THEN Attr("string", cfa_in) ELSE NoAttr,
                       NoAttr, NoAttr, NoAttr),
              "Create", TRUE)

NextCFA == OpenFilter

SpecCFA == InitCFA /\ [][NextCFA]_vars

(***************************************************************************)
(* The claims.                                                             *)
(***************************************************************************)
OpenSucceeded == call.op = "open" /\ call.result = "success"
OpenFailed == call.op = "open" /\ call.result = "failure"
CurrentLog == files[m_tif].log
UserAttr(name) == call.userspec.attrs[name]
Last(seq) == seq[Len(seq)]

\* C1: close() (and the destructor's close) on a session that holds no
\* handle of an open file returns success and does not call TIFFClose.
C1_CloseWithoutHandleIsNoop ==
    [][(~IsOpenFile(m_tif) /\ call'.op \in {"close", "destroy"})
         => (call'.result = "success" /\ closeLog' = closeLog)]_vars

\* C2: write_scanline on an open file returns success exactly when
\* TIFFWriteScanline succeeded, and failure when it failed.
C2_WriteFailurePropagates ==
    (call.op = "write_scanline" /\ IsOpenFile(m_tif))
      => (call.result = (IF Last(CurrentLog)[4] THEN "success" ELSE "failure"))

\* C3: once the session object is destroyed, every handle that a
\* successful open() obtained was passed to TIFFClose exactly once.
C3_EveryHandleClosedOnce ==
    status = "destroyed" => \A h \in 1..Len(files) : files[h].closes = 1

\* C4: a failed open() leaves m_tif null, records an error that names the
\* path, writes no tag, leaves the working spec as the caller gave it and
\* the calibration members as they were; a close() right after it returns
\* success without calling TIFFClose.
C4_FailedOpenTouchesNothing ==
    [][/\ (call'.op = "open" /\ call'.result = "failure")
          => /\ m_tif' = 0
             /\ \E i \in 1..Len(errmsg') : errmsg'[i] = call'.name
             /\ files' = files
             /\ closeLog' = closeLog
             /\ m_spec' = call'.userspec
             /\ m_colormatrix1' = m_colormatrix1
             /\ m_colormatrix2' = m_colormatrix2
             /\ m_asShotNeutral' = m_asShotNeutral
       /\ (OpenFailed /\ call'.op = "close")
          => /\ call'.result = "success"
             /\ closeLog' = closeLog
             /\ files' = files]_vars

\* A failed open() of a spec that asks for three 8-bit channels and carries
\* calibration attributes, on a session that still has its defaults.
C4_Witness ==
    /\ OpenFailed
    /\ call.userspec = FullSpec
    /\ m_spec.nchannels = 3
    /\ m_colormatrix1 = Identity3x3
    /\ m_tif = 0

\* C5: after every successful open(), a spec without raw:ColorMatrix1 gets
\* the identity as its ColorMatrix1 tag, and a spec without
\* raw:asShotNeutral gets {1,1,1} as its AsShotNeutral tag.
C5_DefaultsWhenAbsent ==
    OpenSucceeded
      => /\ ~Found(UserAttr("raw:ColorMatrix1"))
              => TagValue(CurrentLog, "COLORMATRIX1") = Identity3x3
         /\ ~Found(UserAttr("raw:asShotNeutral"))
              => TagValue(CurrentLog, "ASSHOTNEUTRAL") = <<1, 1, 1>>

\* C6: after every successful open(), the file has a ColorMatrix2 tag if
\* and only if the spec given has a raw:ColorMatrix2 attribute of matrix
\* type, and the tag, set once, holds the caller's nine values.
C6_ColorMatrix2IffGiven ==
    OpenSucceeded
      => /\ TagPresent(CurrentLog, "COLORMATRIX2")
              <=> UserAttr("raw:ColorMatrix2").type = "matrix33"
         /\ TagPresent(CurrentLog, "COLORMATRIX2")
              => TagHistory(CurrentLog, "COLORMATRIX2")
                   = << UserAttr("raw:ColorMatrix2").value >>

\* A successful open() without the attribute on a session whose earlier
\* open() was given one: the file has no ColorMatrix2 tag.
C6_Witness ==
    /\ OpenSucceeded
    /\ ~Found(UserAttr("raw:ColorMatrix2"))
    /\ m_colormatrix2 = MatB
    /\ ~TagPresent(CurrentLog, "COLORMATRIX2")

\* The codes of the seven filter letters.
CfaCode ==
    [c \in {"R", "G", "B", "C", "M", "Y", "W"} |->
        CASE c = "R" -> 0 [] c = "G" -> 1 [] c = "B" -> 2 [] c = "C" -> 3
          [] c = "M" -> 4 [] c = "Y" -> 5 [] OTHER -> 6]

\* The filter string open() reads: the attribute, or "" when it is absent.
GivenFilter ==
    IF Found(UserAttr("raw:FilterPattern"))
    THEN UserAttr("raw:FilterPattern").value ELSE <<>>

\* C7: the CFA pattern tag that open() writes has four bytes; for a string
\* of four filter letters byte i is the code of letter i, and for a string
\* whose length is not 4 (the empty string of an absent attribute
\* included) the four bytes are zero.
C7_CfaPattern ==
    OpenSucceeded
      => LET pat == TagValue(CurrentLog, "CFAPATTERN")
             f == GivenFilter
         IN /\ Len(pat) = 4
            /\ Len(f) # 4 => pat = <<0, 0, 0, 0>>
            /\ (Len(f) = 4 /\ \A i \in 1..4 : f[i] \in DOMAIN CfaCode)
                 => \A i \in 1..4 : pat[i] = CfaCode[f[i]]

\* The string "WBGC" was encoded as 6, 2, 1, 3.
C7_Witness ==
    /\ OpenSucceeded
    /\ GivenFilter = <<"W", "B", "G", "C">>
    /\ TagValue(CurrentLog, "CFAPATTERN") = <<6, 2, 1, 3>>

\* C8 as stated: after a successful open() the make tag and the model tag
\* were each set to "" and then to "DNG".
C8_MakeAndModelAreDNG ==
    OpenSucceeded
      => /\ TagHistory(CurrentLog, "MAKE") = <<"", "DNG">>
         /\ TagHistory(CurrentLog, "MODEL") = <<"", "DNG">>

\* C8 as amended: after a successful open() the make tag was set to "" and
\* then to "DNG"; the model tag was set to "" once and is left empty; the
\* unique camera model tag was set once, to "DNG".
C8_MakeAndUniqueModelAreDNG ==
    OpenSucceeded
      => /\ TagHistory(CurrentLog, "MAKE") = <<"", "DNG">>
         /\ TagHistory(CurrentLog, "MODEL") = <<"">>
         /\ TagHistory(CurrentLog, "UNIQUECAMERAMODEL") = <<"DNG">>

\* A successful open() has returned with the model tag empty.
C8_Witness ==
    /\ OpenSucceeded
    /\ TagValue(CurrentLog, "MODEL") = ""
    /\ TagValue(CurrentLog, "MAKE") = "DNG"

\* The tags open() must have written: DNG version through active area
\* (ColorMatrix2 is optional).
MandatoryTags ==
    {"DNGVERSION", "SUBFILETYPE", "COMPRESSION", "MAKE", "MODEL",
     "IMAGEWIDTH", "IMAGELENGTH", "BITSPERSAMPLE", "ROWSPERSTRIP",
     "ORIENTATION", "PHOTOMETRIC", "SAMPLESPERPIXEL", "PLANARCONFIG",
     "SAMPLEFORMAT", "CFAREPEATPATTERNDIM", "CFAPATTERN",
     "UNIQUECAMERAMODEL", "COLORMATRIX1", "ASSHOTNEUTRAL", "CFALAYOUT",
     "CFAPLANECOLOR", "ACTIVEAREA"}

TagNames(log) == {log[i][2] : i \in {j \in 1..Len(log) : ~IsRow(log[j])}}
TagsComplete(log) == MandatoryTags \subseteq TagNames(log)
\* Once a row is in the log, only rows follow.
NoTagAfterRow(log) ==
    \A i \in 1..(Len(log) - 1) : IsRow(log[i]) => IsRow(log[i + 1])
EveryFileTaggedFirst ==
    \A h \in 1..Len(files) :
        TagsComplete(files[h].log) /\ NoTagAfterRow(files[h].log)
WriteFaults == SelectSeq(faults, LAMBDA f : f[1] = "TIFFWriteScanline")

\* C9 as stated: in any sequence of calls no TIFFWriteScanline is issued
\* on a handle that is not the file of a successful open(), and every file
\* has its complete tag set before its first row.
C9_WritesOnlyOnTaggedFiles ==
    /\ WriteFaults = <<>>
    /\ EveryFileTaggedFirst

\* C9 as amended: every file of a successful open() has its complete tag
\* set and no tag after a row; a write_scanline on a session that holds an
\* open file issues the row write on that file, and one on a session that
\* holds none issues it on the null or indeterminate handle.
C9_WritesOnHeldFileFollowTags ==
    /\ EveryFileTaggedFirst
    /\ \A i \in 1..Len(WriteFaults) : WriteFaults[i][2] \in {0, Garbage}
    /\ call.op = "write_scanline"
         => IF IsOpenFile(m_tif)
            THEN IsRow(Last(CurrentLog)) /\ Last(CurrentLog)[2] = call.y
            ELSE /\ m_tif \in {0, Garbage}
                 /\ Last(faults) = <<"TIFFWriteScanline", m_tif>>

\* A row was written to an open file, after all its tags.
C9_Witness ==
    /\ call.op = "write_scanline"
    /\ IsOpenFile(m_tif)
    /\ IsRow(Last(CurrentLog))
    /\ TagsComplete(SubSeq(CurrentLog, 1, Len(CurrentLog) - 1))

\* The native form of a caller's row: two bytes a sample, low byte first;
\* an 8-bit sample v becomes the 16-bit sample 257 * v, whose two bytes
\* are both v.
ExpectedNative(data) ==
    [k \in 1..(2 * Len(data.samples)) |->
        LET v == data.samples[(k + 1) \div 2]
        IN IF data.format = "UINT8" THEN v
           ELSE IF k % 2 = 1 THEN v % 256 ELSE v \div 256]

\* C10: after a successful write_scanline(y) on an open session the
\* scratch buffer is the native 16-bit form of that row, 2 * width bytes
\* long, and it is the buffer given to TIFFWriteScanline for row y; every
\* row given to a file has 2 * width bytes.
C10_ScratchHoldsRow ==
    /\ (call.op = "write_scanline" /\ call.result = "success"
          /\ IsOpenFile(m_tif))
         => /\ m_scratch = ExpectedNative(call.data)
            /\ Len(m_scratch) = 2 * m_spec.width
            /\ IsRow(Last(CurrentLog))
            /\ Last(CurrentLog)[2] = call.y
            /\ Last(CurrentLog)[3] = m_scratch
    /\ \A h \in 1..Len(files) :
         LET rows == RowsOf(files[h].log)
         IN \A i \in 1..Len(rows) :
              Len(rows[i][3]) = 2 * TagValue(files[h].log, "IMAGEWIDTH")

\* Rows 0 and 1 of a file of height 2 and width 2 were written in order:
\* two row writes, the second with the second row's four bytes.
C10_Witness ==
    /\ call.op = "write_scanline"
    /\ IsOpenFile(m_tif)
    /\ m_spec.width = 2
    /\ LET rows == RowsOf(CurrentLog)
       IN /\ Len(rows) = TagValue(CurrentLog, "IMAGELENGTH")
          /\ [i \in 1..Len(rows) |-> rows[i][2]] = <<0, 1>>
          /\ rows[1][3] = <<0, 32, 1, 32>>
          /\ rows[2][3] = <<32, 32, 33, 33>>
    /\ m_scratch = <<32, 32, 33, 33>>

====
